---- MODULE Spec2Model ----
(***************************************************************************)
(* Model of OpenCLGA/ocl_ga_client.py: the worker pool (OpenCLGAClient),   *)
(* its worker processes (OpenCLGAWorker) and the command dispatch          *)
(* (process_data) that the transport's receive thread calls.               *)
(*                                                                         *)
(* An OpenCLGAWorker is a multiprocessing.Process.  The object the pool    *)
(* holds lives in the pool's process (parent[w]); run() and everything it  *)
(* reaches execute on the copy in the child process (worker[w]).  Inside a *)
(* child three kinds of thread run: the main thread (run), the transport's *)
(* receive thread (process_data) and the threads started by "run".         *)
(***************************************************************************)
EXTENDS Integers, Sequences, FiniteSets, TLC

\* ------------------------------------------------------------------ bounds
MaxWorkers == 2     \* devices the enumeration may report, over all platforms
MaxCmds == 3        \* messages the coordinator delivers to a single worker
PoolCmds == 2       \* messages it delivers when a whole pool is started
MaxGens == 1        \* generation callbacks the engine makes in one worker

VARIABLES
    platforms,        \* environment: device count of each OpenCL platform
    drv,              \* position of start_ocl_ga_client
    workerProcesses,  \* OpenCLGAClient.__workerProcesses (worker ids, in order)
    poolAlive,        \* OpenCLGAClient.alive ("unset" until shutdown sets it)
    parent,           \* per worker: the pool-side OpenCLGAWorker object
    proc,             \* per worker: the OS process behind it
    worker,           \* per worker: the child-side object, its threads, its channel
    cmdsLeft          \* messages the coordinator may still deliver

vars == <<platforms, drv, workerProcesses, poolAlive, parent, proc, worker, cmdsLeft>>

\* ------------------------------------------------------- device enumeration
\* (mutant) the device loop starts at index 1
RECURSIVE DevicesOf_FromOne(_, _, _)
DevicesOf_FromOne(pidx, n, didx) ==
    IF didx + 1 >= n THEN <<>>
    ELSE <<(<<pidx, didx + 1>>)>> \o DevicesOf_FromOne(pidx, n, didx + 1)

\* lines 25-27: the devices of one platform, by index
RECURSIVE DevicesOf(_, _, _)
DevicesOf(pidx, n, didx) ==
    IF didx >= n THEN <<>> ELSE <<(<<pidx, didx>>)>> \o DevicesOf(pidx, n, didx + 1)

RECURSIVE Enumerate(_, _)
Enumerate(ps, pidx) ==
    IF pidx >= Len(ps) THEN <<>>
    ELSE DevicesOf(pidx, ps[pidx + 1], 0) \o Enumerate(ps, pidx + 1)

\* query_devices: platforms[0] is read before the loop, so an empty platform
\* list raises and nothing is sent on the pipe.
QueryRaises(ps) == Len(ps) = 0
query_devices(ps) == Enumerate(ps, 0)

WorkerIds == 1..MaxWorkers

\* the enumerations the environment may present: up to MaxWorkers platforms
\* (some possibly without devices) holding at most MaxWorkers devices
RECURSIVE Sum(_, _)
Sum(ps, k) == IF k > Len(ps) THEN 0 ELSE ps[k] + Sum(ps, k + 1)

PlatformLists ==
    {ps \in UNION {[1..n -> 0..MaxWorkers] : n \in 0..MaxWorkers} : Sum(ps, 1) <= MaxWorkers}

\* ------------------------------------------------------------ the protocol
Guarded == {"pause", "stop", "restore", "best", "save", "statistics"}
Recognized == Guarded \cup {"prepare", "run", "exit"}
Commands == Recognized \cup {"bogus"}
Messages == Commands \cup {"undecodable"}

\* What the environment decides about one message: how the external calls
\* of its handler end.  "undecodable" is a message lines 112-115 cannot decode.
Variants(cmd) ==
    IF cmd = "prepare" THEN {"ok", "bad_payload", "ctor_fails", "prepare_fails"}
    ELSE IF cmd \in Guarded THEN {"ok", "engine_raises"}
    ELSE IF cmd = "run" THEN {"ok", "bad_payload"}
    ELSE {"ok"}

\* ------------------------------------------------------------- constructors
\* OpenCLGAWorker.__init__
NewWorker ==
    [ pc |-> "create_context",  \* position of the main thread in run()
      acquires |-> 0,           \* create_context() calls made (line 56)
      connects |-> 0,           \* Client(...) constructions attempted (line 64)
      ended |-> "no",           \* how run() returned, once it has
      client |-> FALSE,         \* self.client is set
      conn |-> "none",          \* the Client's connection: none / open / closed
      shutdowns |-> 0,          \* client.shutdown() calls made
      notifier |-> FALSE,       \* self.notifier is set
      ocl_ga |-> 0,             \* self.ocl_ga: 0 is None, else an engine instance
      engines |-> 0,            \* engine instances constructed so far
      prepared |-> {},          \* instances whose prepare() returned
      calls |-> 0,              \* method calls made on engine instances
      gens |-> 0,               \* generation callbacks the engine has made
      alive |-> TRUE,           \* self.alive
      threads |-> <<>>,         \* threads started by "run", in order
      channel |-> <<>>,         \* Results put on the connection, in order
      disp |-> "idle",          \* position of the receive thread in process_data
      handled |-> 0,            \* messages the transport has passed to process_data
      msg |-> "none",           \* the last of them
      outcome |-> "none" ]      \* how its handling ended

\* the pool-side object; the indexes are -1 until __fork_process gives them
NewParent ==
    [alive |-> TRUE, client |-> FALSE, notifier |-> FALSE, terminates |-> 0,
     platform_index |-> -1, device_index |-> -1]

\* __fork_process, lines 185-187: OpenCLGAWorker(platform_index, device_index, ...)
fork_process(dev) ==
    [NewParent EXCEPT !.platform_index = dev[1], !.device_index = dev[2]]


\* ------------------------------------------------------------- transport
\* OpenCLGAWorker.send: nothing is sent while self.client is unset.  The
\* Client's send puts the Result on the connection; on a connection that
\* client.shutdown() has closed it raises.
SendRaises(wr) == wr.client /\ wr.conn # "open"

send(wr, type, src) ==
    IF wr.client /\ wr.conn = "open"
    THEN [wr EXCEPT !.channel = Append(@, [type |-> type, src |-> src])]
    ELSE wr

\* ------------------------------------------------ process_data, lines 107-159
Finish(wr, outcome) == [wr EXCEPT !.outcome = outcome, !.disp = "idle"]

\* (mutant) "save" is missing from the list of line 118
NeedsEngine_NoSave(cmd) == cmd \in {"pause", "stop", "restore", "best", "statistics"}

\* line 118: the commands refused while there is no engine
NeedsEngine(cmd) == cmd \in {"pause", "stop", "restore", "best", "save", "statistics"}

\* create_ocl_ga, lines 99-105, called from line 123.  self.ocl_ga is
\* assigned as soon as the constructor returns, before prepare() is called.
create_ocl_ga(wr, v) ==
    IF v \in {"bad_payload", "ctor_fails"} THEN Finish(wr, "raised")
    ELSE LET e == wr.engines + 1
             made == [wr EXCEPT !.engines = e, !.ocl_ga = e, !.calls = @ + 1]
         IN  IF v = "prepare_fails" THEN Finish(made, "raised")
             ELSE Finish([made EXCEPT !.prepared = @ \cup {e}], "ok")

\* lines 124-129: pause, stop, restore are forwarded to the engine
Forward(wr, cmd, v) ==
    IF wr.ocl_ga = 0 THEN Finish(wr, "raised")
    ELSE Finish([wr EXCEPT !.calls = @ + 1], IF v = "ok" THEN "ok" ELSE "raised")

\* (mutant) every reply is sent with the type of the save reply
Reply_SaveType(wr, cmd, v) ==
    IF wr.ocl_ga = 0 THEN Finish(wr, "raised")
    ELSE LET called == [wr EXCEPT !.calls = @ + 1]
         IN  IF v # "ok" \/ SendRaises(called) THEN Finish(called, "raised")
             ELSE Finish(send(called, "save", 0), "ok")

\* lines 130-147: save, best, statistics call the engine, then send one Result
Reply(wr, cmd, v) ==
    IF wr.ocl_ga = 0 THEN Finish(wr, "raised")
    ELSE LET called == [wr EXCEPT !.calls = @ + 1]
         IN  IF v # "ok" \/ SendRaises(called) THEN Finish(called, "raised")
             ELSE Finish(send(called, cmd, 0), "ok")

\* lines 148-150: a thread is created and started, whatever self.ocl_ga is
StartRun(wr, v) ==
    Finish([wr EXCEPT !.threads = Append(@, [pc |-> "start", ok |-> (v = "ok"),
                                             eng |-> 0])],
           "ok")

\* line 152: self.client.shutdown(); self.client is not cleared afterwards
ExitShutdown(wr) ==
    IF ~wr.client THEN Finish(wr, "raised")
    ELSE [wr EXCEPT !.conn = "closed", !.shutdowns = @ + 1, !.disp = "exit_notify"]

\* (mutant) the exit handler cancels the run threads after notifying
ExitNotified_Cancels(wr) ==
    IF ~wr.notifier THEN Finish(wr, "raised")
    ELSE Finish([wr EXCEPT !.pc = IF @ = "parked" THEN "notified" ELSE @,
                           !.alive = FALSE,
                           !.threads = [t \in 1..Len(@) |-> [@[t] EXCEPT !.pc = "died"]]],
                "ok")

\* lines 153-155: with self.notifier: notifyAll(); then self.alive = False
ExitNotified(wr) ==
    IF ~wr.notifier THEN Finish(wr, "raised")
    ELSE Finish([wr EXCEPT !.pc = IF @ = "parked" THEN "notified" ELSE @,
                           !.alive = FALSE],
                "ok")

\* (mutant) the exit branch is the final else
process_data_ExitElse(wr, cmd, v) ==
    LET w0 == [wr EXCEPT !.disp = "handling"]
    IN  IF cmd = "undecodable" THEN Finish(w0, "propagated")
        ELSE IF NeedsEngine(cmd) /\ w0.ocl_ga = 0 THEN Finish(w0, "rejected")
        ELSE IF cmd = "prepare" THEN create_ocl_ga(w0, v)
        ELSE IF cmd \in {"pause", "stop", "restore"} THEN Forward(w0, cmd, v)
        ELSE IF cmd \in {"save", "best", "statistics"} THEN Reply(w0, cmd, v)
        ELSE IF cmd = "run" THEN StartRun(w0, v)
        ELSE ExitShutdown(w0)

process_data(wr, cmd, v) ==
    LET w0 == [wr EXCEPT !.disp = "handling"]
    IN  IF cmd = "undecodable" THEN Finish(w0, "propagated")
        ELSE IF NeedsEngine(cmd) /\ w0.ocl_ga = 0 THEN Finish(w0, "rejected")
        ELSE IF cmd = "prepare" THEN create_ocl_ga(w0, v)
        ELSE IF cmd \in {"pause", "stop", "restore"} THEN Forward(w0, cmd, v)
        ELSE IF cmd \in {"save", "best", "statistics"} THEN Reply(w0, cmd, v)
        ELSE IF cmd = "run" THEN StartRun(w0, v)
        ELSE IF cmd = "exit" THEN ExitShutdown(w0)
        ELSE Finish(w0, "unknown")

\* ---------------------------------------------------------- run, lines 52-77
\* lines 55-62: one call of create_context; the bare except logs and returns
acquire(wr, ok) ==
    IF ok THEN [wr EXCEPT !.acquires = @ + 1, !.pc = "connect"]
    ELSE [wr EXCEPT !.acquires = @ + 1, !.pc = "returned", !.ended = "acquire_failed"]

\* (mutant) a refused connection is tried again
connect_Retry(wr, ok) ==
    IF ok THEN [wr EXCEPT !.connects = @ + 1, !.conn = "open", !.pc = "assign_client"]
    ELSE [wr EXCEPT !.connects = @ + 1]

\* line 64, right-hand side, and lines 69-72: one construction of the Client;
\* ConnectionRefusedError is logged, self.client is cleared and run() returns
connect(wr, ok) ==
    IF ok THEN [wr EXCEPT !.connects = @ + 1, !.conn = "open", !.pc = "assign_client"]
    ELSE [wr EXCEPT !.connects = @ + 1, !.client = FALSE, !.pc = "returned",
                    !.ended = "refused"]

\* ------------------------------------------------- run_ocl_ga, lines 92-97
\* line 93 unpacks the payload, line 96 reads self.ocl_ga and enters its run()
run_enter(wr, t) ==
    IF ~wr.threads[t].ok \/ wr.ocl_ga = 0
    THEN [wr EXCEPT !.threads[t].pc = "died"]
    ELSE [wr EXCEPT !.threads[t].pc = "running", !.threads[t].eng = wr.ocl_ga,
                    !.calls = @ + 1]

\* send_and_dump_info, lines 85-90: the engine's per-generation callback
send_and_dump_info(wr, t) ==
    IF SendRaises(wr) THEN [wr EXCEPT !.threads[t].pc = "died"]
    ELSE send(wr, "generation_result", t)

\* (mutant) "end" is sent before and after the engine's run() returns
run_finish_TwoEnds(wr, t, ok) ==
    IF ~ok \/ SendRaises(wr) THEN [wr EXCEPT !.threads[t].pc = "died"]
    ELSE [send(send(wr, "end", t), "end", t) EXCEPT !.threads[t].pc = "done"]

\* (mutant) "end" is sent in a finally clause
run_finish_Finally(wr, t, ok) ==
    IF SendRaises(wr) THEN [wr EXCEPT !.threads[t].pc = "died"]
    ELSE [send(wr, "end", t) EXCEPT !.threads[t].pc = IF ok THEN "done" ELSE "died"]

\* lines 96-97: the engine's run() raises, or returns and "end" is sent
run_finish(wr, t, ok) ==
    IF ~ok \/ SendRaises(wr) THEN [wr EXCEPT !.threads[t].pc = "died"]
    ELSE [send(wr, "end", t) EXCEPT !.threads[t].pc = "done"]

ThreadOver(th) == th.pc \in {"done", "died"}

\* ------------------------------------------------------------------ the pool
\* OpenCLGAWorker.terminate, lines 42-50, as the pool calls it: on the
\* pool-side object, whose client and notifier run() never set.
terminate(po) ==
    [po EXCEPT !.client = FALSE, !.alive = FALSE, !.notifier = FALSE,
               !.terminates = @ + 1]

\* Process.terminate (line 50) signals the child if it is still running
Signalled(st) == IF st = "running" THEN "killed" ELSE st

\* What is left of a child whose process has ended: its threads and objects
\* are gone; the Results it had put on the connection, the attempts it had
\* made and the way its run() had ended are facts that stay.
Gone(wr) ==
    [NewWorker EXCEPT !.pc = "gone", !.channel = wr.channel, !.acquires = wr.acquires,
                      !.connects = wr.connects, !.ended = wr.ended]

\* Process.is_alive
ProcessAlive(w) == proc[w] = "running"

\* (mutant) the loop assigns worker.is_alive() without "alive and"
RECURSIVE AllAlive_Last(_, _, _)
AllAlive_Last(ws, k, alive) ==
    IF k > Len(ws) THEN alive ELSE AllAlive_Last(ws, k + 1, ProcessAlive(ws[k]))

\* OpenCLGAClient.is_alive, lines 203-207
RECURSIVE AllAlive(_, _, _)
AllAlive(ws, k, alive) ==
    IF k > Len(ws) THEN alive ELSE AllAlive(ws, k + 1, alive /\ ProcessAlive(ws[k]))

\* (mutant) a pool that shutdown has marked inactive is not alive
is_alive_Flag == poolAlive # "false" /\ AllAlive(workerProcesses, 1, TRUE)

is_alive == AllAlive(workerProcesses, 1, TRUE)

\* OpenCLGAClient.stop_workers, lines 193-197
Members(ws) == {ws[k] : k \in 1..Len(ws)}

RECURSIVE TerminateEach(_, _, _)
TerminateEach(ws, k, st) ==
    IF k > Len(ws) THEN st
    ELSE LET w == ws[k]
         IN  TerminateEach(ws, k + 1,
                 [st EXCEPT !.parent[w] = terminate(@),
                            !.proc[w] = Signalled(@),
                            !.worker[w] = IF st.proc[w] = "running" THEN Gone(@) ELSE @])

\* (mutant) the loop starts at the second worker
stop_workers_SkipFirst(ws, st) == [TerminateEach(ws, 2, st) EXCEPT !.workers = <<>>]

stop_workers(ws, st) == [TerminateEach(ws, 1, st) EXCEPT !.workers = <<>>]

TypeOK ==
    /\ drv \in {"new", "created", "poll", "bye", "shutdown", "hung"}
    /\ cmdsLeft \in 0..MaxCmds + PoolCmds
    /\ poolAlive \in {"unset", "false"}
    /\ \A w \in WorkerIds : proc[w] \in {"none", "unstarted", "running", "exited", "killed"}

Start(ps, n) ==
    /\ platforms = ps
    /\ drv = "new"
    /\ workerProcesses = <<>>
    /\ poolAlive = "unset"
    /\ parent = [w \in WorkerIds |-> NewParent]
    /\ proc = [w \in WorkerIds |-> "none"]
    /\ worker = [w \in WorkerIds |-> NewWorker]
    /\ cmdsLeft = n

\* one platform with one device: a pool of a single worker
Init == Start(<<1>>, MaxCmds)

\* any enumeration within the bounds
PoolInit ==
    \E ps \in PlatformLists : Start(ps, PoolCmds)

\* create_workers_for_devices, lines 171-187.  When query_devices raises in
\* its process nothing arrives on the pipe and recv() does not return.
CreateWorkers ==
    /\ drv = "new"
    /\ IF QueryRaises(platforms)
       THEN /\ drv' = "hung"
            /\ UNCHANGED <<workerProcesses, proc, parent>>
       ELSE LET device_list == query_devices(platforms)
            IN  /\ workerProcesses' = [k \in 1..Len(device_list) |-> k]
                /\ parent' = [w \in WorkerIds |->
                                IF w <= Len(device_list) THEN fork_process(device_list[w])
                                ELSE parent[w]]
                /\ proc' = [w \in WorkerIds |->
                              IF w <= Len(device_list) THEN "unstarted" ELSE "none"]
                /\ drv' = "created"
    /\ UNCHANGED <<platforms, poolAlive, worker, cmdsLeft>>

\* start_workers, lines 189-191
StartWorkers ==
    /\ drv = "created"
    /\ proc' = [w \in WorkerIds |->
                  IF w \in Members(workerProcesses) THEN "running" ELSE proc[w]]
    /\ drv' = "poll"
    /\ UNCHANGED <<platforms, workerProcesses, poolAlive, parent, worker, cmdsLeft>>

\* start_ocl_ga_client, lines 215-219: the loop ends when is_alive() is false
PollBye ==
    /\ drv = "poll"
    /\ ~is_alive
    /\ drv' = "bye"
    /\ UNCHANGED <<platforms, workerProcesses, poolAlive, parent, proc, worker, cmdsLeft>>

\* lines 220-221 and 199-201: KeyboardInterrupt in the loop, then shutdown
Shutdown ==
    /\ drv = "poll"
    /\ LET r == stop_workers(workerProcesses,
                    [workers |-> workerProcesses, parent |-> parent,
                     proc |-> proc, worker |-> worker])
       IN  /\ parent' = r.parent
           /\ proc' = r.proc
           /\ worker' = r.worker
           /\ workerProcesses' = r.workers
    /\ poolAlive' = "false"
    /\ drv' = "shutdown"
    /\ UNCHANGED <<platforms, cmdsLeft>>

\* ------------------------------------------------ the worker's main thread
Running(i) == proc[i] = "running"
Pool == <<platforms, drv, workerProcesses, poolAlive, parent, proc, cmdsLeft>>
Becomes(i, wr) == worker' = [worker EXCEPT ![i] = wr]

\* run, lines 55-62: a failure to acquire the device ends run()
CreateContext(i) ==
    /\ Running(i) /\ worker[i].pc = "create_context"
    /\ \E ok \in BOOLEAN : Becomes(i, acquire(worker[i], ok))
    /\ UNCHANGED Pool

\* line 64, right-hand side: the Client connects and starts receiving; a
\* refused connection ends run() (lines 69-72)
Connect(i) ==
    /\ Running(i) /\ worker[i].pc = "connect"
    /\ \E ok \in BOOLEAN : Becomes(i, connect(worker[i], ok))
    /\ UNCHANGED Pool

\* line 64, the assignment to self.client
AssignClient(i) ==
    /\ Running(i) /\ worker[i].pc = "assign_client"
    /\ Becomes(i, [worker[i] EXCEPT !.client = TRUE, !.pc = "send_info"])
    /\ UNCHANGED Pool

\* lines 67-68: an error of send other than ConnectionRefusedError leaves run()
SendDeviceInfo(i) ==
    /\ Running(i) /\ worker[i].pc = "send_info"
    /\ Becomes(i, IF SendRaises(worker[i])
                  THEN [worker[i] EXCEPT !.pc = "returned", !.ended = "send_failed"]
                  ELSE [send(worker[i], "device_info", 0) EXCEPT !.pc = "mk_notifier"])
    /\ UNCHANGED Pool

\* line 75
MakeNotifier(i) ==
    /\ Running(i) /\ worker[i].pc = "mk_notifier"
    /\ Becomes(i, [worker[i] EXCEPT !.notifier = TRUE, !.pc = "wait"])
    /\ UNCHANGED Pool

\* lines 76-77: with self.notifier: wait() parks the thread; the notifier's
\* lock is held only from the with to the wait, which releases it
Wait(i) ==
    /\ Running(i) /\ worker[i].pc = "wait"
    /\ Becomes(i, [worker[i] EXCEPT !.pc = "parked"])
    /\ UNCHANGED Pool

\* line 77: a notified wait() takes the lock again and returns; run() returns
Wake(i) ==
    /\ Running(i) /\ worker[i].pc = "notified"
    /\ Becomes(i, [worker[i] EXCEPT !.pc = "returned", !.ended = "notified"])
    /\ UNCHANGED Pool

\* The process ends once run() has returned and its other threads are over.
ChildExit(i) ==
    /\ Running(i) /\ worker[i].pc = "returned"
    /\ worker[i].disp = "idle"
    /\ \A t \in 1..Len(worker[i].threads) : ThreadOver(worker[i].threads[t])
    /\ proc' = [proc EXCEPT ![i] = "exited"]
    /\ Becomes(i, Gone(worker[i]))
    /\ UNCHANGED <<platforms, drv, workerProcesses, poolAlive, parent, cmdsLeft>>

\* ------------------------------------------- the transport's receive thread
\* The Client calls process_data with each message it has received, one at a
\* time, from the moment it is connected.
ProcessData(i) ==
    /\ Running(i) /\ worker[i].conn # "none" /\ worker[i].disp = "idle"
    /\ cmdsLeft > 0
    /\ cmdsLeft' = cmdsLeft - 1
    /\ \E cmd \in Messages : \E v \in Variants(cmd) :
         Becomes(i, process_data([worker[i] EXCEPT !.handled = @ + 1, !.msg = cmd],
                                 cmd, v))
    /\ UNCHANGED <<platforms, drv, workerProcesses, poolAlive, parent, proc>>

\* the exit handler goes on to lines 153-155
ExitNotify(i) ==
    /\ Running(i) /\ worker[i].disp = "exit_notify"
    /\ Becomes(i, ExitNotified(worker[i]))
    /\ UNCHANGED Pool

\* ------------------------------------------------------------ run threads
RunEnter(i, t) ==
    /\ Running(i) /\ worker[i].threads[t].pc = "start"
    /\ Becomes(i, run_enter(worker[i], t))
    /\ UNCHANGED Pool

\* the engine's run() calls the generation callback
RunGeneration(i, t) ==
    /\ Running(i) /\ worker[i].threads[t].pc = "running"
    /\ worker[i].gens < MaxGens
    /\ Becomes(i, [send_and_dump_info(worker[i], t) EXCEPT !.gens = @ + 1])
    /\ UNCHANGED Pool

\* the engine's run() returns, or raises
RunFinish(i, t) ==
    /\ Running(i) /\ worker[i].threads[t].pc = "running"
    /\ \E ok \in BOOLEAN : Becomes(i, run_finish(worker[i], t, ok))
    /\ UNCHANGED Pool

MainStep(i) ==
    \/ CreateContext(i) \/ Connect(i) \/ AssignClient(i) \/ SendDeviceInfo(i)
    \/ MakeNotifier(i) \/ Wait(i) \/ Wake(i)

ThreadStep(i) ==
    \E t \in 1..Len(worker[i].threads) :
        RunEnter(i, t) \/ RunGeneration(i, t) \/ RunFinish(i, t)

Next ==
    \/ CreateWorkers \/ StartWorkers \/ PollBye \/ Shutdown
    \/ \E i \in WorkerIds : MainStep(i)
    \/ \E i \in WorkerIds : ProcessData(i)
    \/ \E i \in WorkerIds : ExitNotify(i)
    \/ \E i \in WorkerIds : \E t \in 1..Len(worker[i].threads) : RunEnter(i, t)
    \/ \E i \in WorkerIds : \E t \in 1..Len(worker[i].threads) : RunGeneration(i, t)
    \/ \E i \in WorkerIds : \E t \in 1..Len(worker[i].threads) : RunFinish(i, t)
    \/ \E i \in WorkerIds : ChildExit(i)

Spec == Init /\ [][Next]_vars

PoolSpec == PoolInit /\ [][Next]_vars

\* A pool started against any enumeration while the coordinator sends
\* nothing: enumeration, creation and start of the workers, their way to the
\* command-wait or to a failed start, the poll loop and the interrupt.
StartInit ==
    \E ps \in PlatformLists : Start(ps, 0)

StartNext ==
    \/ CreateWorkers \/ StartWorkers \/ PollBye \/ Shutdown
    \/ \E i \in WorkerIds : CreateContext(i)
    \/ \E i \in WorkerIds : Connect(i)
    \/ \E i \in WorkerIds : AssignClient(i)
    \/ \E i \in WorkerIds : SendDeviceInfo(i)
    \/ \E i \in WorkerIds : MakeNotifier(i)
    \/ \E i \in WorkerIds : Wait(i)
    \/ \E i \in WorkerIds : ChildExit(i)

StartSpec == StartInit /\ [][StartNext]_vars

\* The threads of a running process are scheduled; the coordinator and the
\* interrupt are not obliged to act.
Fairness ==
    \A i \in WorkerIds :
        /\ WF_vars(MainStep(i)) /\ WF_vars(ExitNotify(i))
        /\ WF_vars(ThreadStep(i)) /\ WF_vars(ChildExit(i))

FairSpec == Spec /\ Fairness

\* ================================================================== claims
\* The worker's state apart from the receive thread's own bookkeeping.
Observed(wr) ==
    [pc |-> wr.pc, client |-> wr.client, conn |-> wr.conn, shutdowns |-> wr.shutdowns,
     notifier |-> wr.notifier, ocl_ga |-> wr.ocl_ga, engines |-> wr.engines,
     prepared |-> wr.prepared, calls |-> wr.calls, gens |-> wr.gens, alive |-> wr.alive,
     threads |-> wr.threads, channel |-> wr.channel]

Same(i) == Observed(worker'[i]) = Observed(worker[i])

\* In this step the transport passes command c to process_data of worker i.
Delivered(i, c) ==
    /\ worker'[i].handled = worker[i].handled + 1
    /\ worker'[i].msg = c

\* ... and process_data returns in the same step, with outcome o.
Handles(i, c, o) ==
    Delivered(i, c) /\ worker'[i].disp = "idle" /\ worker'[i].outcome = o

\* The last call of process_data on worker i was for c and has ended with o.
Last(i, c, o) ==
    worker[i].msg = c /\ worker[i].outcome = o /\ worker[i].disp = "idle"

\* C1: a pause, stop, restore, best, save or statistics command handled while
\* the worker has no engine is rejected: the engine is not called, no Result is
\* emitted, nothing of the worker changes, and process_data returns so that the
\* next command can be handled.
C1_RejectedBeforePrepare ==
    [][\A i \in WorkerIds : \A c \in Guarded :
         (Delivered(i, c) /\ worker[i].ocl_ga = 0)
            => (Same(i) /\ Handles(i, c, "rejected"))]_vars

C1_Witness ==
    \E i \in WorkerIds : \E c \in Guarded :
        /\ Last(i, c, "rejected") /\ worker[i].ocl_ga = 0 /\ worker[i].conn = "open"
        /\ worker[i].calls = 0 /\ Len(worker[i].channel) = 1

\* the Results a run thread has put on the channel, in order
FromThread(ch, t) == SelectSeq(ch, LAMBDA m : m.src = t)

\* C2 (as stated): on the channel of a worker that has announced its device,
\* once an "end" is there no message follows it, whatever is handled afterwards.
C2_NothingAfterEnd ==
    \A i \in WorkerIds : \A k \in 2..Len(worker[i].channel) :
        (worker[i].channel[1].type = "device_info" /\ worker[i].channel[k].type = "end")
            => k = Len(worker[i].channel)

C2_Shape(wr) ==
    \A t \in 1..Len(wr.threads) :
        LET sub == FromThread(wr.channel, t)
        IN  /\ \A k \in 1..Len(sub) :
                  /\ sub[k].type \in {"generation_result", "end"}
                  /\ sub[k].type = "end" => k = Len(sub)
            /\ (Len(sub) > 0 /\ sub[Len(sub)].type = "end") => wr.threads[t].pc = "done"

C2_EndSent(i) ==
    \A t \in 1..Len(worker[i].threads) :
        ( /\ worker[i].threads[t].pc = "running"
          /\ Len(worker'[i].threads) >= t
          /\ worker'[i].threads[t].pc = "done"
          /\ worker[i].client )
        => worker'[i].channel = Append(worker[i].channel, [type |-> "end", src |-> t])

\* C2 (amended): the messages of one run thread are zero or more
\* generation_result followed by at most one end, which is that thread's last
\* message and is sent only when the engine's run has returned; it is sent
\* whenever the run returns while the connection handle is set and the
\* connection open.  Results of other commands and of other run threads may
\* follow an end.
C2_RunThenEnd ==
    /\ [](\A i \in WorkerIds : C2_Shape(worker[i]))
    /\ [][\A i \in WorkerIds : C2_EndSent(i)]_vars

C2_Witness ==
    \E i \in WorkerIds :
        /\ Len(worker[i].threads) = 1 /\ worker[i].threads[1].pc = "done"
        /\ Len(worker[i].channel) = 4
        /\ worker[i].channel[2] = [type |-> "generation_result", src |-> 1]
        /\ worker[i].channel[3] = [type |-> "end", src |-> 1]
        /\ worker[i].channel[4].src = 0

\* C3: an exit handled after an exit that has closed the connection and
\* released the main thread is a no-op: client.shutdown() is not called again
\* and nothing of the worker changes.
C3_ClosedOnce ==
    [][\A i \in WorkerIds :
         (Delivered(i, "exit") /\ worker[i].shutdowns = 1 /\ ~worker[i].alive)
            => (worker'[i].shutdowns = 1 /\ Same(i))]_vars

\* C4: once an exit command has been handled and has closed the connection,
\* the main thread does not stay in notifier.wait(): in the state below the
\* handler is over, nothing is left to notify the parked main thread, and run()
\* never returns.
C4_ExitReleasesMain ==
    \A i \in WorkerIds :
        (worker[i].msg = "exit" /\ worker[i].shutdowns > 0 /\ worker[i].disp = "idle")
            => worker[i].pc # "parked"

\* C4 as a property of behaviours, under fair scheduling of the threads: an
\* exit that has been handled leads to run() returning with the alive flag
\* false (or to the end of the process).
C4_ExitLeadsToReturn ==
    \A i \in WorkerIds :
        (worker[i].msg = "exit" /\ worker[i].shutdowns > 0)
            ~> (proc[i] # "running" \/ (worker[i].pc = "returned" /\ ~worker[i].alive))

\* C5: is_alive() is true exactly when every worker process of the pool's
\* list is alive, so it is false as soon as one of them has ended.
C5_IsAliveIsAnd ==
    is_alive <=> (\A w \in Members(workerProcesses) : proc[w] = "running")

C5_Witness ==
    /\ drv = "poll" /\ Len(workerProcesses) = 2
    /\ proc[1] = "exited" /\ proc[2] = "running" /\ ~is_alive

\* C6: after stop_workers the pool's list is empty and terminate() has been
\* called on every worker that was created, whatever state it was in.
C6_StopEmptiesPool ==
    drv = "shutdown" =>
        /\ workerProcesses = <<>>
        /\ \A w \in WorkerIds :
              proc[w] # "none" =>
                  /\ parent[w].terminates = 1 /\ ~parent[w].alive
                  /\ proc[w] \in {"exited", "killed"}

C6_Witness ==
    /\ drv = "shutdown" /\ workerProcesses = <<>>
    /\ proc[1] = "exited" /\ proc[2] = "killed"
    /\ parent[1].terminates = 1 /\ parent[2].terminates = 1

\* The main thread is waiting for commands (line 77).
Waiting(i) == worker[i].pc = "parked"

\* C7: a run command handled by a waiting worker on which no prepare has
\* succeeded changes nothing of the worker: no thread, no engine call, no Result.
C7_RunRejectedBeforePrepare ==
    [][\A i \in WorkerIds :
         (Delivered(i, "run") /\ Waiting(i) /\ worker[i].prepared = {}) => Same(i)]_vars

\* C8: while no prepare has succeeded (none was sent, or each failed at some
\* step), a waiting worker rejects a pause, stop, restore, best, save or
\* statistics command without calling the engine.
C8_FailedPrepareStaysIdle ==
    [][\A i \in WorkerIds : \A c \in Guarded :
         (Delivered(i, c) /\ Waiting(i) /\ worker[i].prepared = {})
            => (Handles(i, c, "rejected") /\ worker'[i].calls = worker[i].calls)]_vars

\* C9: a command outside the recognized set changes nothing of the worker,
\* prepared or not: no engine call, no Result, no thread.
C9_UnknownCommandNoEffect ==
    [][\A i \in WorkerIds : \A c \in Commands \ Recognized :
         Delivered(i, c) => (Same(i) /\ Handles(i, c, "unknown"))]_vars

C9_Witness ==
    \E i \in WorkerIds :
        /\ Last(i, "bogus", "unknown") /\ worker[i].ocl_ga # 0
        /\ worker[i].prepared # {} /\ worker[i].conn = "open"

C10_Silent(i) ==
    \A c \in {"prepare", "pause", "stop", "restore", "run"} :
        Delivered(i, c) => worker'[i].channel = worker[i].channel

C10_OneReply(i, c) ==
    worker'[i].channel = Append(worker[i].channel, [type |-> c, src |-> 0])

FailedStartup(i) == worker[i].ended \in {"acquire_failed", "refused"}

\* C11: a worker whose device acquisition fails or whose connection is
\* refused ends without retry: it has made one acquisition attempt and at most
\* one connection attempt, it is not and will not be in the command-wait (run()
\* has returned and only the end of the process is left), it has received no
\* command and emitted no Result, and once its process has ended is_alive() is
\* false for the pool that lists it.
C11_FailedStartupEnds ==
    \A i \in WorkerIds :
        /\ worker[i].acquires <= 1 /\ worker[i].connects <= 1
        /\ FailedStartup(i) =>
              /\ worker[i].acquires = 1
              /\ worker[i].connects = (IF worker[i].ended = "refused" THEN 1 ELSE 0)
              /\ worker[i].pc \in {"returned", "gone"}
              /\ worker[i].conn = "none" /\ ~worker[i].client /\ ~worker[i].notifier
              /\ worker[i].channel = <<>> /\ worker[i].handled = 0
              /\ worker[i].threads = <<>>
              /\ Running(i) => (ENABLED ChildExit(i) /\ ~ENABLED MainStep(i))
              /\ (proc[i] = "exited" /\ i \in Members(workerProcesses)) => ~is_alive

C11_Witness ==
    /\ drv = "poll" /\ workerProcesses = <<1, 2>>
    /\ worker[1].ended = "refused" /\ proc[1] = "exited"
    /\ worker[2].pc = "parked" /\ proc[2] = "running"
    /\ ~is_alive

\* C12: when the enumeration returns an empty device list, no worker is
\* created and start_ocl_ga_client does not sit in its polling loop: the loop's
\* test of is_alive() fails and the function ends by itself.
C12_NoDevicesAborts ==
    (~QueryRaises(platforms) /\ query_devices(platforms) = <<>>)
        => /\ workerProcesses = <<>>
           /\ \A w \in WorkerIds : proc[w] = "none"
           /\ drv = "poll" => (~is_alive /\ ENABLED PollBye)

\* the (platform_index, device_index) pairs of the workers the pool has created
\* from the list query_devices sent, in the order of the pool's list
DeviceList ==
    [k \in 1..Len(workerProcesses) |->
        <<parent[workerProcesses[k]].platform_index,
          parent[workerProcesses[k]].device_index>>]

\* ascending by platform index, then by device index
Before(a, b) == a[1] < b[1] \/ (a[1] = b[1] /\ a[2] < b[2])

\* C13: the list query_devices returns holds the pair of every device of every
\* platform and nothing else, in ascending order of platform index and then of
\* device index, without duplicates; a call made later against the unchanged
\* device set returns the list the pool was created from.
C13_EnumerationOrdered ==
    (drv \in {"created", "poll", "bye"}) =>
        LET data == DeviceList
        IN  /\ \A pidx \in 0..Len(platforms) - 1 : \A didx \in 0..platforms[pidx + 1] - 1 :
                  \E k \in 1..Len(data) : data[k] = <<pidx, didx>>
            /\ \A k \in 1..Len(data) :
                  /\ data[k][1] \in 0..Len(platforms) - 1
                  /\ data[k][2] \in 0..platforms[data[k][1] + 1] - 1
            /\ \A j, k \in 1..Len(data) : j < k => Before(data[j], data[k])
            /\ \A j, k \in 1..Len(data) : data[j] = data[k] => j = k
            /\ query_devices(platforms) = data

C13_Witness ==
    /\ drv = "poll" /\ platforms = <<0, 2>>
    /\ DeviceList = <<(<<1, 0>>), (<<1, 1>>)>>

\* the run threads of a worker that are inside the engine's run()
InRunLoop(wr) == {t \in 1..Len(wr.threads) : wr.threads[t].pc = "running"}

\* C14: in a worker that is waiting for commands, at most one run thread at a
\* time is executing the engine's run loop, whatever commands have been handled.
C14_OneRunThread ==
    \A i \in WorkerIds : Waiting(i) => Cardinality(InRunLoop(worker[i])) <= 1

\* C15: once a prepare has succeeded on a waiting worker, the engine it made
\* stays the worker's engine whatever is handled next, so that no thread runs
\* one instance while self.ocl_ga is another.
C15_OneEngineForLife ==
    [][\A i \in WorkerIds :
         (Waiting(i) /\ worker[i].ocl_ga \in worker[i].prepared /\ worker'[i].pc # "gone")
            => /\ worker'[i].ocl_ga = worker[i].ocl_ga
               /\ worker'[i].engines = worker[i].engines]_vars

\* C16: whatever message the transport passes to a waiting worker's
\* process_data, no exception leaves process_data.
C16_NothingPropagates ==
    \A i \in WorkerIds : Waiting(i) => worker[i].outcome # "propagated"

\* a step of worker i's exit handler: the call that closes the connection, or
\* the notification that ends it
ExitHandlerStep(i) ==
    \/ Delivered(i, "exit")
    \/ worker[i].disp = "exit_notify" /\ worker'[i].disp = "idle"

C18_DeviceInfoFirst ==
    \A i \in WorkerIds : \A k \in 1..Len(worker[i].channel) :
        worker[i].channel[k].type = "device_info" <=> k = 1

\* the "end" Results on a channel, and those among them sent by thread t
Ends(ch) == SelectSeq(ch, LAMBDA m : m.type = "end")
EndsOf(ch, t) == SelectSeq(ch, LAMBDA m : m.type = "end" /\ m.src = t)

\* C19: a worker has emitted at most as many "end" Results as it has handled
\* run commands: every end comes from a run thread, each thread has sent at
\* most one, only threads whose engine run has returned have sent one, and the
\* step in which a thread dies adds no end.  This is stated of a worker whose
\* process lives; the end of the process and everything after it leave the
\* channel as it was.
C19_EndsWithinRuns ==
    /\ [](\A i \in WorkerIds : worker[i].pc # "gone" =>
            /\ Len(Ends(worker[i].channel)) <= Len(worker[i].threads)
            /\ \A k \in 1..Len(worker[i].channel) :
                  worker[i].channel[k].type = "end"
                     => worker[i].channel[k].src \in 1..Len(worker[i].threads)
            /\ \A t \in 1..Len(worker[i].threads) :
                  /\ Len(EndsOf(worker[i].channel, t)) <= 1
                  /\ Len(EndsOf(worker[i].channel, t)) = 1
                        => worker[i].threads[t].pc = "done")
    /\ [][\A i \in WorkerIds : \A t \in 1..Len(worker[i].threads) :
            ( /\ worker[i].threads[t].pc \in {"start", "running"}
              /\ Len(worker'[i].threads) >= t
              /\ worker'[i].threads[t].pc = "died" )
            => Ends(worker'[i].channel) = Ends(worker[i].channel)]_vars
    /\ [][\A i \in WorkerIds :
            worker'[i].pc = "gone" => worker'[i].channel = worker[i].channel]_vars

C19_Witness ==
    \E i \in WorkerIds :
        /\ Len(worker[i].threads) = 2
        /\ worker[i].threads[1].pc = "done" /\ worker[i].threads[2].pc = "died"
        /\ worker[i].threads[2].eng # 0
        /\ Ends(worker[i].channel) = <<[type |-> "end", src |-> 1]>>

\* C20: is_alive() of a pool whose list is empty is true, whether or not
\* shutdown has marked the pool inactive: it is true in every state after
\* stop_workers and shutdown have returned.
C20_AliveAfterShutdown ==
    /\ workerProcesses = <<>> => is_alive
    /\ drv = "shutdown" => (poolAlive = "false" /\ workerProcesses = <<>> /\ is_alive)

C20_Witness ==
    /\ drv = "shutdown" /\ poolAlive = "false" /\ is_alive
    /\ platforms = <<2>>
    /\ proc[1] = "killed" /\ proc[2] = "exited"
    /\ \A w \in WorkerIds : ~ProcessAlive(w)
====
